---------------------------- MODULE Spec2Model ----------------------------
(***************************************************************************)
(* Model of brazil_cylinder.cpp: the scene set up by                       *)
(* Quantum::setupInitialConditions and the per-step controller             *)
(* Quantum::actionsAfterTimeStep (flow shutoff, alternating floor kicks,   *)
(* rest after stop_kick), driven by the time loop that main starts with    *)
(* problem.solve.                                                          *)
(*                                                                         *)
(* Time is exact: every time value is an integer number of ticks, one tick *)
(* being the shipped time step 0.005/50 = 0.0001, so 1.0 is TicksPerUnit   *)
(* ticks.  The doubles of the source are modelled as these exact values;   *)
(* rounding of the accumulated time is outside the model.                  *)
(***************************************************************************)
EXTENDS Integers, Sequences, FiniteSets, TLC

VARIABLES
    pc,                     \* "setup" before setupInitialConditions, then "run"
    t,                      \* getTime()
    dt,                     \* getTimeStep()
    timeMax,                \* getTimeMax()
    stop_flow,              \* global stop_flow
    oscillation_amplitude,  \* global oscillation_amplitude
    pulse_interval,         \* global pulse_interval
    stop_kick,              \* global stop_kick
    wallHandler,            \* sequence of walls, in the order they were added
    boundaryHandler,        \* sequence of boundaries, in the order they were added
    particleHandler,        \* sequence of particles, in the order they were added
    kick_count,             \* static int kick_count
    kick_interval_counter,  \* static double kick_interval_counter
    branch,                 \* history: branch taken by the last actionsAfterTimeStep
    prevBranch,             \* history: branch taken by the invocation before that one
    lastKickVelocity,       \* history: z velocity written by the last kick (0: none yet)
    kickTimes               \* history: getTime() of each kick so far, in order

config == <<dt, timeMax, stop_flow, oscillation_amplitude, pulse_interval, stop_kick>>

vars == <<pc, t, dt, timeMax, stop_flow, oscillation_amplitude, pulse_interval,
          stop_kick, wallHandler, boundaryHandler, particleHandler, kick_count,
          kick_interval_counter, branch, prevBranch, lastKickVelocity,
          kickTimes>>

---------------------------------------------------------------------------
(* Units and configuration *)

\* ticks per unit of simulation time: the shipped time step 0.0001 is 1 tick
TicksPerUnit == 10000

\* problem.setTimeStep(0.005 / 50.0)
ShippedTimeStep == (5 * TicksPerUnit) \div (1000 * 50)

\* problem.setTimeMax(25.0)
ShippedTimeMax == 25 * TicksPerUnit

\* double stop_flow = 1.0
ShippedStopFlow == 1 * TicksPerUnit

\* double oscillation_amplitude = 1.0
ShippedAmplitude == 1

\* double pulse_interval = 0.25
ShippedPulseInterval == TicksPerUnit \div 4

\* double stop_kick = 20.0
ShippedStopKick == 20 * TicksPerUnit

\* static double kick_interval_counter = 1.5
InitialThreshold == (3 * TicksPerUnit) \div 2

\* ib.setVolumeFlowRate(1)
InitialFlowRate == 1

\* The bounded configurations are multiples of a grid of 0.125 time units.
Coarse == TicksPerUnit \div 8

MaxDt == 3          \* dt            in {1..MaxDt} * Coarse
MaxStopFlow == 18   \* stop_flow     in {1..MaxStopFlow} * Coarse
MaxPulse == 5       \* pulse_interval in {1..MaxPulse} * Coarse
MaxStopKick == 6    \* stop_kick     in InitialThreshold + {0..MaxStopKick} * Coarse
MaxAmplitude == 2   \* oscillation_amplitude in 1..MaxAmplitude
MaxTime == 30       \* timeMax = MaxTime * Coarse

---------------------------------------------------------------------------
(* Helpers *)

Zero == <<0, 0, 0>>

\* Vec3D(x, y, z)
Vec3D(x, y, z) == <<x, y, z>>

\* pow(-1, kick_count): integer power by repeated multiplication
RECURSIVE pow(_, _)
pow(b, n) == IF n = 0 THEN 1 ELSE b * pow(b, n - 1)

\* variant: the first object of the handler instead of the last
getFirstObject(h) == 1

\* BaseHandler::getLastObject as an index into the handler
getLastObject(h) == Len(h)

\* BaseHandler::copyAndAddObject
copyAndAddObject(h, o) == Append(h, o)

\* BaseWall::setVelocity on the wall with index i; writes counts the calls
\* made on the object since it was added to its handler
setVelocity(h, i, v) ==
    [h EXCEPT ![i].velocity = v, ![i].writes = h[i].writes + 1]

\* CubeInsertionBoundary::setVolumeFlowRate on the boundary with index i
setVolumeFlowRate(h, i, r) ==
    [h EXCEPT ![i].flowRate = r, ![i].writes = h[i].writes + 1]


---------------------------------------------------------------------------
(* Initial states *)

\* State after the construction of Quantum and the settings of main, before
\* solve calls setupInitialConditions: empty handlers, time 0, statics at
\* their initialisers.
InitWith(step, tmax, sflow, amp, pulse, skick) ==
    /\ pc = "setup"
    /\ t = 0
    /\ dt = step
    /\ timeMax = tmax
    /\ stop_flow = sflow
    /\ oscillation_amplitude = amp
    /\ pulse_interval = pulse
    /\ stop_kick = skick
    /\ wallHandler = <<>>
    /\ boundaryHandler = <<>>
    /\ particleHandler = <<>>
    /\ kick_count = 0
    /\ kick_interval_counter = InitialThreshold
    /\ branch = "none"
    /\ prevBranch = "none"
    /\ lastKickVelocity = 0
    /\ kickTimes = <<>>

\* The configuration main and the globals ship with.
IsShipped ==
    /\ dt = ShippedTimeStep
    /\ timeMax = ShippedTimeMax
    /\ stop_flow = ShippedStopFlow
    /\ oscillation_amplitude = ShippedAmplitude
    /\ pulse_interval = ShippedPulseInterval
    /\ stop_kick = ShippedStopKick

InitShipped ==
    InitWith(ShippedTimeStep, ShippedTimeMax, ShippedStopFlow, ShippedAmplitude,
             ShippedPulseInterval, ShippedStopKick)

\* Bounded family of configurations: every step size, shutoff time, pulse
\* interval, cutoff time and amplitude on the coarse grid.
Init ==
    \E a \in 1..MaxDt, f \in 1..MaxStopFlow, p \in 1..MaxPulse,
       k \in 0..MaxStopKick, amp \in 1..MaxAmplitude :
        InitWith(a * Coarse, MaxTime * Coarse, f * Coarse, amp, p * Coarse,
                 InitialThreshold + k * Coarse)

---------------------------------------------------------------------------
(* Quantum::setupInitialConditions *)

\* Walls in the order of the three wallHandler.copyAndAddObject calls.
setupWalls ==
    copyAndAddObject(
        copyAndAddObject(
            copyAndAddObject(wallHandler,
                [kind |-> "AxisymmetricIntersectionOfWalls", velocity |-> Zero,
                 writes |-> 0]),
            [kind |-> "top_wall", velocity |-> Zero, writes |-> 0]),
        [kind |-> "bottom_wall", velocity |-> Zero, writes |-> 0])

setupInitialConditions ==
    /\ pc = "setup"
    /\ wallHandler' = setupWalls
    /\ particleHandler' = copyAndAddObject(particleHandler,
            [kind |-> "SphericalParticle", radius |-> "big_particle_radius",
             velocity |-> Zero])
    /\ boundaryHandler' = copyAndAddObject(boundaryHandler,
            [kind |-> "CubeInsertionBoundary", flowRate |-> InitialFlowRate,
             writes |-> 0])
    /\ pc' = "run"
    /\ UNCHANGED <<t, config, kick_count, kick_interval_counter, branch,
                   prevBranch, lastKickVelocity, kickTimes>>

---------------------------------------------------------------------------
(* Quantum::actionsAfterTimeStep, called once per step of solve *)

\* solve's loop: a step is taken while getTime() < getTimeMax()
solve == pc = "run" /\ t < timeMax

\* the engine advances the time by one time step after the callback
advanceTime ==
    /\ t' = t + dt
    /\ prevBranch' = branch
    /\ UNCHANGED <<pc, config, particleHandler>>

\* variant: level-triggered, without the test getTime() < stop_flow
FlowShutoffCondLevel == t + dt > stop_flow

\* getTime() < stop_flow && getTime() + getTimeStep() > stop_flow
FlowShutoffCond == t < stop_flow /\ t + dt > stop_flow

\* variant: the kick window closed once the cutoff time is reached
KickCondBeforeStop ==
    /\ t > kick_interval_counter
    /\ t < kick_interval_counter + pulse_interval
    /\ t < stop_kick

\* getTime() > kick_interval_counter && getTime() < kick_interval_counter + pulse_interval
KickCond == t > kick_interval_counter /\ t < kick_interval_counter + pulse_interval

\* variant: the cutoff time itself included
RestCondInclusive == t >= stop_kick

\* getTime() > stop_kick
RestCond == t > stop_kick

\* variant: the sign taken from the count after its increment
KickVelocityPostIncrement ==
    Vec3D(0, 0, oscillation_amplitude * pow(-1, kick_count + 1))

\* Vec3D(0.0, 0.0, oscillation_amplitude * pow(-1, kick_count))
KickVelocity == Vec3D(0, 0, oscillation_amplitude * pow(-1, kick_count))

\* variant: the threshold re-anchored at the current time (a fixed delay
\* after the kick instead of an additive schedule)
NextKickThresholdFromTime == t + pulse_interval

\* kick_interval_counter += pulse_interval
NextKickThreshold == kick_interval_counter + pulse_interval

\* variant: the rest branch reverses the wall instead of stopping it
RestVelocityReverse(v) == Vec3D(0, 0, 0 - v[3])

\* Vec3D(0.0, 0.0, 0.0), written whatever the wall's velocity v was
RestVelocity(v) == Vec3D(0, 0, 0)

\* the wall and the boundary the handler writes to
TargetWall == getLastObject(wallHandler)

TargetBoundary == getLastObject(boundaryHandler)

\* effect of the rest branch on the walls
RestEffect(walls) ==
    setVelocity(walls, getLastObject(walls),
                RestVelocity(walls[getLastObject(walls)].velocity))

\* if (...) setVolumeFlowRate(0)
FlowShutoff ==
    /\ solve
    /\ FlowShutoffCond
    /\ boundaryHandler' = setVolumeFlowRate(boundaryHandler, TargetBoundary, 0)
    /\ branch' = "flow"
    /\ UNCHANGED <<wallHandler, kick_count, kick_interval_counter,
                   lastKickVelocity, kickTimes>>
    /\ advanceTime

\* else if (...) kick
Kick ==
    /\ solve
    /\ ~FlowShutoffCond
    /\ KickCond
    /\ wallHandler' = setVelocity(wallHandler, TargetWall, KickVelocity)
    /\ kick_interval_counter' = NextKickThreshold
    /\ kick_count' = kick_count + 1
    /\ lastKickVelocity' = KickVelocity[3]
    /\ kickTimes' = Append(kickTimes, t)
    /\ branch' = "kick"
    /\ UNCHANGED boundaryHandler
    /\ advanceTime

\* else if (...) rest
Rest ==
    /\ solve
    /\ ~FlowShutoffCond
    /\ ~KickCond
    /\ RestCond
    /\ wallHandler' = RestEffect(wallHandler)
    /\ branch' = "rest"
    /\ UNCHANGED <<boundaryHandler, kick_count, kick_interval_counter,
                   lastKickVelocity, kickTimes>>
    /\ advanceTime

\* no branch taken
NoBranch ==
    /\ solve
    /\ ~FlowShutoffCond
    /\ ~KickCond
    /\ ~RestCond
    /\ branch' = "skip"
    /\ UNCHANGED <<wallHandler, boundaryHandler, kick_count,
                   kick_interval_counter, lastKickVelocity, kickTimes>>
    /\ advanceTime

actionsAfterTimeStep == FlowShutoff \/ Kick \/ Rest \/ NoBranch

Next == setupInitialConditions \/ actionsAfterTimeStep

Spec == Init /\ [][Next]_vars

\* the bounded family together with the shipped configuration
InitAll == Init \/ InitShipped

SpecShipped == InitAll /\ [][Next]_vars

---------------------------------------------------------------------------
(* Observables *)

Running == pc = "run"

\* an invocation of actionsAfterTimeStep has happened; the last one ran at LastTime
Invoked == Running /\ branch # "none"

LastTime == t - dt

\* the insertion region set up by setupInitialConditions
InsertionRegion ==
    CHOOSE i \in 1..Len(boundaryHandler) :
        boundaryHandler[i].kind = "CubeInsertionBoundary"

FlowRate == boundaryHandler[InsertionRegion].flowRate

FlowWrites == boundaryHandler[InsertionRegion].writes

\* the floor wall set up by setupInitialConditions
FloorWall ==
    CHOOSE i \in 1..Len(wallHandler) : wallHandler[i].kind = "bottom_wall"

FloorVelocity == wallHandler[FloorWall].velocity

TypeOK ==
    /\ pc \in {"setup", "run"}
    /\ t \in Nat
    /\ kick_count \in Nat
    /\ branch \in {"none", "flow", "kick", "rest", "skip"}
    /\ Running => /\ Len(wallHandler) = 3
                  /\ Len(boundaryHandler) = 1
                  /\ FlowRate \in {0, InitialFlowRate}

---------------------------------------------------------------------------
(* Flow shutoff *)

\* C1: in every run the flow rate is zero exactly from the end of the step
\* whose interval [t, t+dt) contains stop_flow on (so it is zero as soon as
\* the time has passed stop_flow, also when stop_flow is a multiple of dt),
\* and the controller has written it exactly once by then.
C1_FlowStopsOnContainingStep ==
    Running =>
        /\ (t > stop_flow <=> FlowRate = 0)
        /\ FlowWrites = (IF t > stop_flow THEN 1 ELSE 0)

\* C6: the controller writes the flow rate at most once, and a flow rate of
\* zero is never made positive again.
C6_FlowWrittenAtMostOnce ==
    /\ [](Running => FlowWrites <= 1)
    /\ [][(Running /\ FlowRate = 0) => FlowRate' = 0]_vars

\* C6 witness: the shutoff has fired and later steps have run with the flow
\* still at zero.
C6_Witness ==
    /\ Running
    /\ FlowWrites = 1
    /\ FlowRate = 0
    /\ LastTime > stop_flow + dt
    /\ kick_count >= 1

---------------------------------------------------------------------------
(* Kicks *)

\* C2: an invocation at a time t >= stop_kick leaves kick_count and the kick
\* threshold unchanged and does not set the floor velocity to a non-zero
\* value.
C2_NoKickFromStopKick ==
    [][(solve /\ t >= stop_kick) =>
            /\ kick_count' = kick_count
            /\ kick_interval_counter' = kick_interval_counter
            /\ FloorVelocity' \in {FloorVelocity, Zero}]_vars

\* C3: after every invocation at a time t > stop_kick the floor velocity is
\* exactly zero.
C3_RestingIsTerminal ==
    (Invoked /\ LastTime > stop_kick) => FloorVelocity = Zero

\* sign of the n-th kick, by parity
KickSign(n) == IF n % 2 = 0 THEN 1 ELSE -1

\* C4: the n-th kick (n counted from 0) sets the floor velocity to
\* (0, 0, oscillation_amplitude * (-1)^n): the first kick is +amplitude and
\* each later kick has the opposite sign of the kick before it.
C4_KickSignsAlternate ==
    [][kick_count' # kick_count =>
            /\ FloorVelocity' = <<0, 0, oscillation_amplitude * KickSign(kick_count)>>
            /\ (kick_count = 0 => FloorVelocity'[3] = oscillation_amplitude)
            /\ (kick_count > 0 => FloorVelocity'[3] = 0 - lastKickVelocity)]_vars

\* C4 witness: the third kick has just fired (two sign changes).
C4_Witness ==
    /\ Invoked
    /\ branch = "kick"
    /\ kick_count = 3
    /\ FloorVelocity = <<0, 0, oscillation_amplitude>>
    /\ lastKickVelocity = oscillation_amplitude

\* C5: the kick threshold always equals InitialThreshold + kick_count *
\* pulse_interval; the two change only together, by pulse_interval and 1.
C5_ThresholdTracksCount ==
    /\ [](kick_interval_counter = InitialThreshold + kick_count * pulse_interval)
    /\ [][(kick_count' # kick_count \/ kick_interval_counter' # kick_interval_counter)
            => /\ kick_count' = kick_count + 1
               /\ kick_interval_counter' = kick_interval_counter + pulse_interval]_vars

\* C5 witness: several kicks have fired.
C5_Witness ==
    /\ Invoked
    /\ kick_count >= 3
    /\ kick_interval_counter = InitialThreshold + 3 * pulse_interval

---------------------------------------------------------------------------
(* Shipped configuration *)

\* C7: with the shipped configuration the flow rate is still positive before
\* t = 1.0 and is 0 within one step of t = 1.0; the first kick fires on the
\* first step after t = 1.5 with velocity +1.0 and the second on the first
\* step after t = 1.75 with velocity -1.0; and after every invocation from
\* t = 20.0 on the floor velocity is 0.0.
C7_ShippedScenario ==
    (IsShipped /\ Invoked) =>
        /\ (LastTime < ShippedStopFlow - dt => FlowRate = InitialFlowRate)
        /\ (LastTime > ShippedStopFlow => FlowRate = 0)
        /\ (LastTime <= InitialThreshold => kick_count = 0)
        /\ (LastTime = InitialThreshold + dt =>
                /\ branch = "kick"
                /\ kick_count = 1
                /\ FloorVelocity = <<0, 0, 1>>)
        /\ (LastTime = InitialThreshold + ShippedPulseInterval + dt =>
                /\ branch = "kick"
                /\ kick_count = 2
                /\ FloorVelocity = <<0, 0, -1>>)
        /\ (LastTime >= ShippedStopKick => FloorVelocity = Zero)

---------------------------------------------------------------------------
(* Rest branch *)

\* C8: the rest branch is idempotent.  In every state, applying its effect
\* twice gives the walls' velocities that applying it once gives, with the
\* floor at zero and the other walls as they were; and every step that takes
\* the rest branch leaves the floor at zero and the flow rate, the kick
\* threshold and the kick count unchanged, a rest step that follows a rest
\* step changing no velocity at all.
C8_RestIdempotent ==
    /\ [](Running =>
            LET once == RestEffect(wallHandler)
                twice == RestEffect(once)
            IN  /\ \A i \in 1..Len(wallHandler) :
                        /\ twice[i].velocity = once[i].velocity
                        /\ i # FloorWall => once[i].velocity = wallHandler[i].velocity
                /\ once[FloorWall].velocity = Zero)
    /\ [][(branch' = "rest" /\ t' # t) =>
            /\ FloorVelocity' = Zero
            /\ FlowRate' = FlowRate
            /\ UNCHANGED <<kick_count, kick_interval_counter>>
            /\ (branch = "rest" =>
                    \A i \in 1..Len(wallHandler) :
                        wallHandler'[i].velocity = wallHandler[i].velocity)]_vars

\* C8 witness: the rest branch has run twice in succession on a floor that
\* kicks had moved before.
C8_Witness ==
    /\ Invoked
    /\ branch = "rest"
    /\ prevBranch = "rest"
    /\ kick_count >= 1
    /\ wallHandler[FloorWall].writes >= kick_count + 2
    /\ FloorVelocity = Zero

---------------------------------------------------------------------------
(* Frame *)

\* C9: the walls are the cylinder, the top wall and the floor wall, in this
\* order, and there is one boundary, the insertion region; the wall the
\* handler writes to is the floor wall and the boundary it writes to is the
\* insertion region; the cylinder and the top wall are never written and
\* keep their zero velocity.
C9_OnlyFloorAndRegionWritten ==
    Running =>
        /\ Len(wallHandler) = 3
        /\ wallHandler[1].kind = "AxisymmetricIntersectionOfWalls"
        /\ wallHandler[2].kind = "top_wall"
        /\ wallHandler[3].kind = "bottom_wall"
        /\ TargetWall = FloorWall
        /\ \A i \in 1..Len(wallHandler) :
                i # FloorWall =>
                    /\ wallHandler[i].writes = 0
                    /\ wallHandler[i].velocity = Zero
        /\ Len(boundaryHandler) = 1
        /\ TargetBoundary = InsertionRegion

\* C9 witness: the flow shutoff, a kick and the rest branch have all written.
C9_Witness ==
    /\ Invoked
    /\ FlowWrites = 1
    /\ kick_count >= 1
    /\ branch = "rest"
    /\ wallHandler[FloorWall].writes > kick_count

\* C10: on every step with t < stop_flow <= t + dt the flow rate is 0 after
\* the step.
C10_ShutoffInclusiveUpperEnd ==
    [][(solve /\ t < stop_flow /\ stop_flow <= t + dt) => FlowRate' = 0]_vars

---------------------------------------------------------------------------
(* Edge trigger of the flow shutoff *)

\* the step taken at the current time has stop_flow strictly inside its interval
Straddles == t < stop_flow /\ stop_flow < t + dt

\* some step already taken (at a multiple of dt below t) straddled stop_flow
StraddledBefore ==
    \E k \in 0..((t \div dt) - 1) : k * dt < stop_flow /\ stop_flow < (k + 1) * dt

---------------------------------------------------------------------------
(* Kick window *)

\* the current time is inside the kick window
InKickWindow ==
    kick_interval_counter < t /\ t < kick_interval_counter + pulse_interval

\* what a kick does, with the count before the increment
KickFires ==
    /\ FloorVelocity' = <<0, 0, oscillation_amplitude * KickSign(kick_count)>>
    /\ kick_interval_counter' = kick_interval_counter + pulse_interval
    /\ kick_count' = kick_count + 1

\* C12 as stated: on every step whose time is inside the kick window the
\* kick fires, also when the step straddles stop_flow.
C12_KickOnEveryWindowStep ==
    [][(solve /\ InKickWindow) => KickFires]_vars

\* C12 amended: on every step whose time is inside the kick window and whose
\* interval does not straddle stop_flow the kick fires; on the straddling
\* step the flow shutoff is taken instead and the kick state is unchanged.
C12_KickOnWindowStepUnlessShutoff ==
    [][(solve /\ InKickWindow) =>
            IF Straddles
            THEN /\ FlowRate' = 0
                 /\ FloorVelocity' = FloorVelocity
                 /\ UNCHANGED <<kick_count, kick_interval_counter>>
            ELSE KickFires]_vars

\* C12 witness: a kick has fired on the step after a window step that the
\* flow shutoff took.
C12_Witness ==
    /\ Invoked
    /\ branch = "kick"
    /\ prevBranch = "flow"
    /\ kick_count >= 1
    /\ LastTime - dt > kick_interval_counter - pulse_interval
    /\ FlowRate = 0

---------------------------------------------------------------------------
(* Waiting for the next kick *)

\* C13 as stated: on every step taken after the flow has been shut off with
\* t <= kick threshold, the flow rate, the floor velocity, the kick threshold
\* and the kick count are unchanged.
C13_WaitingMutatesNothing ==
    [][(solve /\ FlowRate = 0 /\ t <= kick_interval_counter) =>
            /\ FlowRate' = FlowRate
            /\ FloorVelocity' = FloorVelocity
            /\ UNCHANGED <<kick_count, kick_interval_counter>>]_vars

\* C13 amended: on every step taken after the flow has been shut off with
\* t <= kick threshold and t <= stop_kick, nothing is written: walls,
\* boundaries, kick threshold and kick count are unchanged.
C13_WaitingBeforeCutoffMutatesNothing ==
    [][(solve /\ FlowRate = 0 /\ t <= kick_interval_counter /\ t <= stop_kick) =>
            UNCHANGED <<wallHandler, boundaryHandler, kick_count,
                        kick_interval_counter>>]_vars

\* C13 witness: a waiting step between two kicks, before the cutoff, with the
\* floor still moving at the last kick's velocity.
C13_Witness ==
    /\ Invoked
    /\ branch = "skip"
    /\ FlowRate = 0
    /\ kick_count >= 1
    /\ LastTime <= kick_interval_counter
    /\ LastTime <= stop_kick
    /\ FloorVelocity # Zero

---------------------------------------------------------------------------
(* Kick schedule *)

\* the kick threshold after n kicks, on the additive grid
Threshold(n) == InitialThreshold + n * pulse_interval

\* the time of the first step (a multiple of dt) on which t exceeds x
FirstStepAfter(x) == ((x \div dt) + 1) * dt

\* how much later the n-th kick (n >= 1) fired than the first step on which t
\* exceeded its threshold, which is when it fires in a run with no missed step
KickDelay(n) == kickTimes[n] - FirstStepAfter(Threshold(n - 1))

\* C14 as stated: once a kick has fired later than the first step on which t
\* exceeded its threshold, every later kick fires at least as much later
\* than its own first step past the threshold.
C14_LateKickDelaysLaterKicks ==
    \A n \in 1..Len(kickTimes) :
        \A m \in (n + 1)..Len(kickTimes) :
            KickDelay(n) > 0 => KickDelay(m) >= KickDelay(n)

\* C14 amended: the thresholds are the fixed grid Threshold(n); every kick
\* fires on the first step on which t exceeds its own threshold, or one step
\* later when that first step was the one that straddled stop_flow, and a
\* kick that fired late is followed only by kicks that fire on time.
C14_LateKickDelaysNoLaterKick ==
    /\ Len(kickTimes) = kick_count
    /\ kick_interval_counter = Threshold(kick_count)
    /\ \A n \in 1..Len(kickTimes) :
            /\ KickDelay(n) \in {0, dt}
            /\ KickDelay(n) = dt =>
                    LET first == FirstStepAfter(Threshold(n - 1))
                    IN  first < stop_flow /\ stop_flow < first + dt
            /\ \A m \in (n + 1)..Len(kickTimes) :
                    KickDelay(n) > 0 => KickDelay(m) = 0

\* C14 witness: a kick fired one step late, behind the flow shutoff, and a
\* later kick has fired on the first step past its threshold.
C14_Witness ==
    /\ Invoked
    /\ Len(kickTimes) >= 2
    /\ \E n \in 1..(Len(kickTimes) - 1) :
            KickDelay(n) = dt /\ KickDelay(n + 1) = 0

---------------------------------------------------------------------------
(* Velocity between kicks *)

\* C15: the floor velocity is always 0, +amplitude or -amplitude (along z);
\* it is 0 while no kick has fired, and after every step taken at a time
\* t <= stop_kick with kick_count = k >= 1 it is amplitude * (-1)^(k-1), the
\* velocity of the last kick.
C15_VelocityIsLastKick ==
    Running =>
        /\ FloorVelocity \in {Zero, <<0, 0, oscillation_amplitude>>,
                              <<0, 0, 0 - oscillation_amplitude>>}
        /\ (kick_count = 0 => FloorVelocity = Zero)
        /\ (Invoked /\ LastTime <= stop_kick /\ kick_count >= 1) =>
                FloorVelocity =
                    <<0, 0, oscillation_amplitude * KickSign(kick_count - 1)>>

\* C15 witness: two steps after the second kick, before the cutoff, the floor
\* still moves at -amplitude.
C15_Witness ==
    /\ Invoked
    /\ branch = "skip"
    /\ prevBranch = "skip"
    /\ kick_count = 2
    /\ LastTime <= stop_kick
    /\ FloorVelocity = <<0, 0, 0 - oscillation_amplitude>>

---------------------------------------------------------------------------
(* No stall *)

=============================================================================
